---- MODULE Spec2Model ----
(***************************************************************************)
(* Model of crypto-ops/signing/pkcs11/ecdsa_sign.cpp: a PKCS#11 client     *)
(* that initializes the library, opens a session, logs in, generates an EC *)
(* key pair, signs a fixed byte string and verifies the signature.         *)
(*                                                                         *)
(* The program is sequential.  Each action below is one token API call of  *)
(* main together with the check of its return value (and, on an error, the *)
(* whole of halt).  The token is the environment: every call may return    *)
(* any return value, and its outputs are drawn from small sets.  The token *)
(* state the program drives (library initialized, session open, logged in, *)
(* objects created) changes only when a call returns CKR_OK.               *)
(***************************************************************************)
EXTENDS Integers, Sequences, FiniteSets, TLC

\* ---------------------------------------------------------------- bounds
MaxRv == 1          \* return values are 0..MaxRv; 0 is CKR_OK, the rest errors
MaxHandle == 2      \* session and object handles the token hands out: 1..MaxHandle
MaxSigLen == 2      \* signature lengths the token reports: 0..MaxSigLen
MaxRuns == 2        \* number of times the program is run against the token

\* ------------------------------------------------------ program constants
CKR_OK == 0
NULL == 0
slot_id == 0
ExitStatusBits == 256   \* a process exit status keeps the low 8 bits

CKM_EC_KEY_PAIR_GEN == "CKM_EC_KEY_PAIR_GEN"
CKM_ECDSA_SHA256 == "CKM_ECDSA_SHA256"
CKU_USER == "CKU_USER"
SessionFlags == {"CKF_SERIAL_SESSION", "CKF_RW_SESSION"}

\* const char data_to_sign[] = "data to sign": 12 characters and the NUL
data_to_sign == <<100, 97, 116, 97, 32, 116, 111, 32, 115, 105, 103, 110, 0>>
sizeof_data_to_sign == Len(data_to_sign)

\* char password[] = "": strlen(password) characters are passed to C_Login
password == <<0>>
strlen_password == Len(password) - 1

p256_curve == <<6, 8, 42, 134, 72, 206, 61, 3, 1, 7>>

ecdsa_gen == [mechanism |-> CKM_EC_KEY_PAIR_GEN, pParameter |-> NULL, ulParameterLen |-> 0]
ecdsa_sign == [mechanism |-> CKM_ECDSA_SHA256, pParameter |-> NULL, ulParameterLen |-> 0]

\* variant of pub_template: the public key made a token object too
pub_template_token == [CKA_TOKEN |-> TRUE, CKA_EC_PARAMS |-> p256_curve]
pub_template == [CKA_TOKEN |-> FALSE, CKA_EC_PARAMS |-> p256_curve]
prv_template == [CKA_TOKEN |-> TRUE, CKA_SIGN |-> TRUE]

RVs == 0..MaxRv
Handles == 1..MaxHandle
SigLens == 0..MaxSigLen

\* ------------------------------------------------------------------ state
VARIABLES
    pc,             \* position of main: the next call, or "returned" / "exited"
    rv,             \* CK_RV rv
    hSession,       \* CK_SESSION_HANDLE hSession
    pub_key,        \* CK_OBJECT_HANDLE pub_key
    prv_key,        \* CK_OBJECT_HANDLE prv_key
    signature_len,  \* CK_ULONG signature_len (indeterminate until C_Sign sets it)
    signature,      \* CK_BYTE_PTR signature: [null, cap, written]
    output,         \* lines printed on stdout
    exitStatus,     \* exit status of the process, -1 while it runs
    calls,          \* token API calls of this run, in order, with arguments and results
    libInitialized, \* token side: C_Initialize succeeded and C_Finalize has not
    sessionOpen,    \* token side: the session of this process is open
    loggedIn,       \* token side: the session is logged in
    objects,        \* token side: the objects on the token
    generated,      \* number of C_GenerateKeyPair calls that returned CKR_OK, all runs
    run             \* number of the current run

vars == <<pc, rv, hSession, pub_key, prv_key, signature_len, signature, output,
          exitStatus, calls, libInitialized, sessionOpen, loggedIn, objects,
          generated, run>>

locals == <<hSession, pub_key, prv_key, signature_len, signature>>
token == <<libInitialized, sessionOpen, loggedIn, objects, generated>>

NoBuffer == [null |-> TRUE, cap |-> 0, written |-> -1]

Call(fn, in, out, r) == [fn |-> fn, in |-> in, out |-> out, rv |-> r]

\* ------------------------------------------------------------ halt, checks
\* variant of halt: exit(0) in place of exit(-1)
halt_success(r) == /\ output' = Append(output, <<"Error", r>>)
                   /\ exitStatus' = 0
                   /\ pc' = "exited"
\* void halt(CK_RV rv) { printf("Error %08lx\n", rv); exit(-1); }
halt(r) == /\ output' = Append(output, <<"Error", r>>)
           /\ exitStatus' = (-1) % ExitStatusBits
           /\ pc' = "exited"

Proceed(next) == /\ pc' = next
                 /\ UNCHANGED <<output, exitStatus>>

\* variant of Check: the test of rv left out
Check_ignore(r, next) == /\ rv' = r
                         /\ Proceed(next)
\* variant of Check: the call re-issued on an error
Check_retry(r, next) == /\ rv' = r
                        /\ IF r # CKR_OK THEN Proceed(pc) ELSE Proceed(next)
\* rv = C_...(...); if (rv != CKR_OK) halt(rv);
Check(r, next) == /\ rv' = r
                  /\ IF r # CKR_OK THEN halt(r) ELSE Proceed(next)

\* C_...(...);  the return value is dropped
Unchecked(next) == /\ UNCHANGED rv
                   /\ Proceed(next)

\* ---------------------------------------------------------------- actions
C_Initialize ==
    /\ pc = "C_Initialize"
    /\ \E r \in RVs :
        /\ calls' = Append(calls, Call("C_Initialize", [pInitArgs |-> NULL], <<>>, r))
        /\ libInitialized' = IF r = CKR_OK THEN TRUE ELSE libInitialized
        /\ Check(r, "C_OpenSession")
    /\ UNCHANGED <<locals, sessionOpen, loggedIn, objects, generated, run>>

C_OpenSession ==
    /\ pc = "C_OpenSession"
    /\ \E r \in RVs, h \in Handles :
        /\ hSession' = IF r = CKR_OK THEN h ELSE hSession
        /\ calls' = Append(calls, Call("C_OpenSession",
                        [slotID |-> slot_id, flags |-> SessionFlags],
                        [hSession |-> hSession'], r))
        /\ sessionOpen' = IF r = CKR_OK THEN TRUE ELSE sessionOpen
        /\ Check(r, "C_Login")
    /\ UNCHANGED <<pub_key, prv_key, signature_len, signature, libInitialized,
                   loggedIn, objects, generated, run>>

C_Login ==
    /\ pc = "C_Login"
    /\ \E r \in RVs :
        /\ calls' = Append(calls, Call("C_Login",
                        [hSession |-> hSession, userType |-> CKU_USER,
                         pPin |-> password, ulPinLen |-> strlen_password], <<>>, r))
        /\ loggedIn' = IF r = CKR_OK THEN TRUE ELSE loggedIn
        /\ Check(r, "C_GenerateKeyPair")
    /\ UNCHANGED <<locals, libInitialized, sessionOpen, objects, generated, run>>

\* The objects a successful C_GenerateKeyPair creates from the two templates
KeyPairObjects ==
    { [class |-> "public", token |-> pub_template.CKA_TOKEN, run |-> run],
      [class |-> "private", token |-> prv_template.CKA_TOKEN, run |-> run] }

\* What is left of the objects when their session ends: the token objects
TokenObjects(objs) == { o \in objs : o.token }

C_GenerateKeyPair ==
    /\ pc = "C_GenerateKeyPair"
    /\ \E r \in RVs, p \in Handles : \E q \in Handles \ {p} :
        /\ pub_key' = IF r = CKR_OK THEN p ELSE pub_key
        /\ prv_key' = IF r = CKR_OK THEN q ELSE prv_key
        /\ calls' = Append(calls, Call("C_GenerateKeyPair",
                        [hSession |-> hSession, pMechanism |-> ecdsa_gen,
                         pPublicKeyTemplate |-> pub_template, ulPublicKeyAttributeCount |-> Cardinality(DOMAIN pub_template),
                         pPrivateKeyTemplate |-> prv_template, ulPrivateKeyAttributeCount |-> Cardinality(DOMAIN prv_template)],
                        [pub_key |-> pub_key', prv_key |-> prv_key'], r))
        /\ objects' = IF r = CKR_OK THEN objects \cup KeyPairObjects ELSE objects
        /\ generated' = IF r = CKR_OK THEN generated + 1 ELSE generated
        /\ Check(r, "C_SignInit")
    /\ UNCHANGED <<hSession, signature_len, signature, libInitialized, sessionOpen,
                   loggedIn, run>>

C_SignInit ==
    /\ pc = "C_SignInit"
    /\ \E r \in RVs :
        /\ calls' = Append(calls, Call("C_SignInit",
                        [hSession |-> hSession, pMechanism |-> ecdsa_sign, hKey |-> prv_key],
                        <<>>, r))
        /\ Check(r, "C_Sign_length")
    /\ UNCHANGED <<locals, token, run>>

\* rv = C_Sign(hSession, data_to_sign, sizeof(data_to_sign), NULL, &signature_len)
C_Sign_length ==
    /\ pc = "C_Sign_length"
    /\ \E r \in RVs, n \in SigLens :
        /\ signature_len' = IF r = CKR_OK THEN n ELSE signature_len
        /\ calls' = Append(calls, Call("C_Sign",
                        [hSession |-> hSession, pData |-> data_to_sign,
                         ulDataLen |-> sizeof_data_to_sign, pSignature |-> NoBuffer],
                        [signature_len |-> signature_len'], r))
        /\ Check(r, "malloc")
    /\ UNCHANGED <<hSession, pub_key, prv_key, signature, token, run>>

\* CK_BYTE_PTR signature = (CK_BYTE_PTR)malloc(signature_len);  not checked
malloc ==
    /\ pc = "malloc"
    /\ \E isNull \in BOOLEAN :
        signature' = IF isNull THEN NoBuffer
                     ELSE [null |-> FALSE, cap |-> signature_len, written |-> -1]
    /\ pc' = "C_Sign_signature"
    /\ UNCHANGED <<rv, hSession, pub_key, prv_key, signature_len, output, exitStatus,
                   calls, token, run>>

\* rv = C_Sign(hSession, data_to_sign, sizeof(data_to_sign), signature, &signature_len)
\* With a null pSignature the token only reports a length; with a buffer it
\* writes at most the capacity announced in signature_len.
C_Sign_signature ==
    /\ pc = "C_Sign_signature"
    /\ \E r \in RVs, n \in SigLens :
        /\ signature.null \/ r # CKR_OK \/ n <= signature_len
        /\ signature_len' = IF r = CKR_OK THEN n ELSE signature_len
        /\ signature' = IF r = CKR_OK /\ ~signature.null
                        THEN [signature EXCEPT !.written = n] ELSE signature
        /\ calls' = Append(calls, Call("C_Sign",
                        [hSession |-> hSession, pData |-> data_to_sign,
                         ulDataLen |-> sizeof_data_to_sign, pSignature |-> signature,
                         signature_len |-> signature_len],
                        [signature_len |-> signature_len', signature |-> signature'], r))
        /\ Check(r, "C_VerifyInit")
    /\ UNCHANGED <<hSession, pub_key, prv_key, token, run>>

\* variant of C_VerifyInit: prv_key passed in place of pub_key
C_VerifyInit_prv ==
    /\ pc = "C_VerifyInit"
    /\ \E r \in RVs :
        /\ calls' = Append(calls, Call("C_VerifyInit",
                        [hSession |-> hSession, pMechanism |-> ecdsa_sign, hKey |-> prv_key],
                        <<>>, r))
        /\ Check(r, "C_Verify")
    /\ UNCHANGED <<locals, token, run>>
\* rv = C_VerifyInit(hSession, &ecdsa_sign, pub_key)
C_VerifyInit ==
    /\ pc = "C_VerifyInit"
    /\ \E r \in RVs :
        /\ calls' = Append(calls, Call("C_VerifyInit",
                        [hSession |-> hSession, pMechanism |-> ecdsa_sign, hKey |-> pub_key],
                        <<>>, r))
        /\ Check(r, "C_Verify")
    /\ UNCHANGED <<locals, token, run>>

C_Verify ==
    /\ pc = "C_Verify"
    /\ \E r \in RVs :
        /\ calls' = Append(calls, Call("C_Verify",
                        [hSession |-> hSession, pData |-> data_to_sign,
                         ulDataLen |-> sizeof_data_to_sign, pSignature |-> signature,
                         ulSignatureLen |-> signature_len], <<>>, r))
        /\ Check(r, "C_CloseSession")
    /\ UNCHANGED <<locals, token, run>>

\* variant of C_CloseSession: the call left out
C_CloseSession_skip ==
    /\ pc = "C_CloseSession"
    /\ Unchecked("C_Finalize")
    /\ UNCHANGED <<locals, calls, token, run>>
\* C_CloseSession(hSession);  closing the session destroys its session objects
C_CloseSession ==
    /\ pc = "C_CloseSession"
    /\ \E r \in RVs :
        /\ calls' = Append(calls, Call("C_CloseSession", [hSession |-> hSession], <<>>, r))
        /\ sessionOpen' = IF r = CKR_OK THEN FALSE ELSE sessionOpen
        /\ loggedIn' = IF r = CKR_OK THEN FALSE ELSE loggedIn
        /\ objects' = IF r = CKR_OK THEN TokenObjects(objects) ELSE objects
        /\ Unchecked("C_Finalize")
    /\ UNCHANGED <<locals, libInitialized, generated, run>>

\* C_Finalize(NULL); and main returns: a main without a return returns 0
C_Finalize ==
    /\ pc = "C_Finalize"
    /\ \E r \in RVs :
        /\ calls' = Append(calls, Call("C_Finalize", [pReserved |-> NULL], <<>>, r))
        /\ libInitialized' = IF r = CKR_OK THEN FALSE ELSE libInitialized
        /\ sessionOpen' = IF r = CKR_OK THEN FALSE ELSE sessionOpen
        /\ loggedIn' = IF r = CKR_OK THEN FALSE ELSE loggedIn
        /\ objects' = IF r = CKR_OK THEN TokenObjects(objects) ELSE objects
    /\ pc' = "returned"
    /\ exitStatus' = 0
    /\ UNCHANGED <<rv, locals, output, generated, run>>

Terminated == pc \in {"returned", "exited"}

\* The process has ended and the program is started again: a new process
\* with fresh locals; the ended process's library state and session are
\* gone, and with them its session objects.
main ==
    /\ Terminated
    /\ run < MaxRuns
    /\ run' = run + 1
    /\ pc' = "C_Initialize"
    /\ rv' = 0
    /\ hSession' = 0
    /\ pub_key' = 0
    /\ prv_key' = 0
    /\ signature_len' \in SigLens
    /\ signature' = NoBuffer
    /\ output' = <<>>
    /\ exitStatus' = -1
    /\ calls' = <<>>
    /\ libInitialized' = FALSE
    /\ sessionOpen' = FALSE
    /\ loggedIn' = FALSE
    /\ objects' = TokenObjects(objects)
    /\ UNCHANGED generated

Step ==
    \/ C_Initialize
    \/ C_OpenSession
    \/ C_Login
    \/ C_GenerateKeyPair
    \/ C_SignInit
    \/ C_Sign_length
    \/ malloc
    \/ C_Sign_signature
    \/ C_VerifyInit
    \/ C_Verify
    \/ C_CloseSession
    \/ C_Finalize

Next == Step \/ main

Init ==
    /\ pc = "C_Initialize"
    /\ rv = 0
    /\ hSession = 0
    /\ pub_key = 0
    /\ prv_key = 0
    /\ signature_len \in SigLens
    /\ signature = NoBuffer
    /\ output = <<>>
    /\ exitStatus = -1
    /\ calls = <<>>
    /\ libInitialized = FALSE
    /\ sessionOpen = FALSE
    /\ loggedIn = FALSE
    /\ objects = {}
    /\ generated = 0
    /\ run = 1

Spec == Init /\ [][Next]_vars

\* Every token API call returns, so the sequential program always takes its next step
LiveSpec == Init /\ [][Next]_vars /\ WF_vars(Step)
\* ------------------------------------------------------- claim vocabulary
CallOrder == <<"C_Initialize", "C_OpenSession", "C_Login", "C_GenerateKeyPair",
               "C_SignInit", "C_Sign", "C_Sign", "C_VerifyInit", "C_Verify",
               "C_CloseSession", "C_Finalize">>
TeardownCalls == {"C_CloseSession", "C_Finalize"}
CheckedCalls == {CallOrder[i] : i \in 1..Len(CallOrder)} \ TeardownCalls
NumChecked == Len(SelectSeq(CallOrder, LAMBDA f : f \in CheckedCalls))

CallsOf(fn) == SelectSeq(calls, LAMBDA c : c.fn = fn)
Called(fn) == Len(CallsOf(fn)) > 0
CheckedFailed == \E i \in 1..Len(calls) :
                    calls[i].fn \in CheckedCalls /\ calls[i].rv # CKR_OK
AllCheckedOK == /\ Len(SelectSeq(calls, LAMBDA c : c.fn \in CheckedCalls)) = NumChecked
                /\ ~CheckedFailed
AllOK == \A i \in 1..Len(calls) : calls[i].rv = CKR_OK

\* C1: the calls made so far are a prefix of the fixed sequence of eleven
\* calls (the first C_Sign being the length query), and every checked call
\* that has a successor returned CKR_OK.
C1_CallsArePrefix ==
    /\ Len(calls) <= Len(CallOrder)
    /\ \A i \in 1..Len(calls) :
        /\ calls[i].fn = CallOrder[i]
        /\ (i < Len(calls) /\ CallOrder[i] \in CheckedCalls) => calls[i].rv = CKR_OK
    /\ Len(CallsOf("C_Sign")) >= 1 => CallsOf("C_Sign")[1].in.pSignature.null

C1_Witness == pc = "exited" /\ Len(calls) = 7 /\ calls[7].rv # CKR_OK

\* C2 (as stated): any of the eleven calls returning an error is the last
\* call of the run, and the program has printed the code and exited with a
\* failure status.
C2_EveryErrorFatal ==
    \A i \in 1..Len(calls) :
        calls[i].rv # CKR_OK =>
            /\ i = Len(calls)
            /\ pc = "exited"
            /\ exitStatus \notin {-1, 0}
            /\ output = << <<"Error", calls[i].rv>> >>

\* C2 (amended): an error of one of the nine checked calls is the last call
\* of the run, with the code printed and a failure exit status; an error of
\* C_CloseSession or C_Finalize is dropped: nothing is printed and the
\* program goes on to its normal end.
C2_CheckedErrorFatal ==
    \A i \in 1..Len(calls) :
        /\ (calls[i].rv # CKR_OK /\ calls[i].fn \in CheckedCalls) =>
                /\ i = Len(calls)
                /\ pc = "exited"
                /\ exitStatus \notin {-1, 0}
                /\ output = << <<"Error", calls[i].rv>> >>
        /\ calls[i].fn \in TeardownCalls =>
                /\ output = <<>>
                /\ pc \in {"C_Finalize", "returned"}
                /\ exitStatus \in {-1, 0}

C2_Witness == pc = "exited" /\ Len(calls) = 4 /\ calls[4].rv # CKR_OK

\* C3: every function is called at most once, C_Sign at most twice, and no
\* function whose call returned an error is called again.
C3_NoRetry ==
    /\ \A fn \in CheckedCalls \cup TeardownCalls :
        Len(CallsOf(fn)) <= (IF fn = "C_Sign" THEN 2 ELSE 1)
    /\ \A i \in 1..Len(calls) : \A j \in (i + 1)..Len(calls) :
        calls[i].rv # CKR_OK => calls[j].fn # calls[i].fn

C3_Witness == /\ Len(CallsOf("C_Sign")) = 2
              /\ CallsOf("C_Sign")[2].rv # CKR_OK
              /\ pc = "exited"

\* C4 (as stated): a run in which every call returned CKR_OK made nine calls.
C4_NineCalls == (pc = "returned" /\ AllOK) => Len(calls) = NumChecked

\* C4 (amended): a run in which every call returned CKR_OK made eleven
\* calls: the nine checked ones, then C_CloseSession and C_Finalize.
C4_ElevenCalls ==
    (pc = "returned" /\ AllOK) =>
        /\ Len(calls) = NumChecked + Cardinality(TeardownCalls)
        /\ [i \in 1..Len(calls) |-> calls[i].fn] = CallOrder

C4_Witness == pc = "returned" /\ AllOK /\ run = 1

\* C5 (as stated): once a run has ended no token object of that run is
\* left, and each run starts with the token as empty as before the first.
C5_NoObjectLeft ==
    /\ Terminated => \A o \in TokenObjects(objects) : o.run # run
    /\ pc = "C_Initialize" => objects = {}

\* C5 (amended): each run in which C_GenerateKeyPair returned CKR_OK leaves
\* exactly one object behind, its private key (CKA_TOKEN true); the public
\* key (CKA_TOKEN false) does not outlive its session.
C5_PrivateKeyLeft ==
    /\ Terminated =>
        /\ \A o \in TokenObjects(objects) : o.class = "private"
        /\ Cardinality(TokenObjects(objects)) = generated
        /\ (\E o \in TokenObjects(objects) : o.run = run)
                <=> (Called("C_GenerateKeyPair") /\ CallsOf("C_GenerateKeyPair")[1].rv = CKR_OK)
    /\ (pc = "C_Initialize" \/ ~sessionOpen) =>
        /\ \A o \in objects : o.class = "private" /\ o.token
        /\ Cardinality(objects) = generated

C5_Witness == pc = "C_Initialize" /\ run > 1 /\ Cardinality(objects) = 1

\* C6: C_Verify gets the session handle C_OpenSession output, and the same
\* data, data length (13) and signature buffer as the second C_Sign, with
\* the length that C_Sign output; both Init calls name CKM_ECDSA_SHA256;
\* C_SignInit gets the private and C_VerifyInit the public key handle that
\* C_GenerateKeyPair output.
C6_VerifiesWhatWasSigned ==
    /\ Called("C_Verify") =>
        LET v == CallsOf("C_Verify")[1]
            s == CallsOf("C_Sign")[2]
        IN  /\ v.in.hSession = CallsOf("C_OpenSession")[1].out.hSession
            /\ v.in.hSession = s.in.hSession
            /\ v.in.pData = s.in.pData
            /\ v.in.ulDataLen = s.in.ulDataLen
            /\ v.in.ulDataLen = 13
            /\ Len(v.in.pData) = 13
            /\ v.in.pSignature = s.out.signature
            /\ v.in.ulSignatureLen = s.out.signature_len
            /\ CallsOf("C_SignInit")[1].in.pMechanism.mechanism = CKM_ECDSA_SHA256
            /\ CallsOf("C_VerifyInit")[1].in.pMechanism = CallsOf("C_SignInit")[1].in.pMechanism
    /\ Called("C_SignInit") =>
        CallsOf("C_SignInit")[1].in.hKey = CallsOf("C_GenerateKeyPair")[1].out.prv_key
    /\ Called("C_VerifyInit") =>
        CallsOf("C_VerifyInit")[1].in.hKey = CallsOf("C_GenerateKeyPair")[1].out.pub_key

C6_Witness == Called("C_Verify") /\ CallsOf("C_Verify")[1].rv = CKR_OK

\* C7: the run ends with a failure status, through halt and with exactly one
\* "Error" line, exactly when a checked call returned an error; otherwise
\* main returns with status 0 and no output, whatever C_CloseSession and
\* C_Finalize returned.
C7_ExitStatus ==
    Terminated =>
        /\ (exitStatus # 0) <=> CheckedFailed
        /\ CheckedFailed =>
            /\ pc = "exited"
            /\ exitStatus = 255
            /\ output = << <<"Error", calls[Len(calls)].rv>> >>
        /\ ~CheckedFailed =>
            /\ pc = "returned"
            /\ exitStatus = 0
            /\ output = <<>>

C7_Witness == /\ pc = "returned"
              /\ exitStatus = 0
              /\ \A fn \in TeardownCalls : CallsOf(fn)[1].rv # CKR_OK

\* C8: every run reaches halt's exit or main's return, and no run makes
\* more than eleven calls.
C8_Terminates ==
    /\ [](Len(calls) <= Len(CallOrder))
    /\ (~Terminated) ~> Terminated

C8_Witness == Terminated /\ Len(calls) = Len(CallOrder) /\ run = MaxRuns

\* C9: C_CloseSession and C_Finalize are called only after all nine checked
\* calls returned CKR_OK, and then both are, C_Finalize last; a run ended by
\* halt leaves the session open if C_OpenSession succeeded, logged in if
\* C_Login succeeded, and the library initialized if C_Initialize succeeded.
C9_TeardownOnlyOnSuccess ==
    /\ \A fn \in TeardownCalls : Called(fn) => AllCheckedOK
    /\ (Terminated /\ AllCheckedOK) => \A fn \in TeardownCalls : Called(fn)
    /\ Called("C_Finalize") =>
        /\ Called("C_CloseSession")
        /\ calls[Len(calls)].fn = "C_Finalize"
        /\ calls[Len(calls) - 1].fn = "C_CloseSession"
    /\ pc = "exited" =>
        /\ ~Called("C_CloseSession") /\ ~Called("C_Finalize")
        /\ (Called("C_Initialize") /\ calls[1].rv = CKR_OK) => libInitialized
        /\ (Called("C_OpenSession") /\ CallsOf("C_OpenSession")[1].rv = CKR_OK) => sessionOpen
        /\ (Called("C_Login") /\ CallsOf("C_Login")[1].rv = CKR_OK) => loggedIn

C9_Witness == /\ pc = "exited"
              /\ Called("C_Verify")
              /\ sessionOpen /\ loggedIn /\ libInitialized

\* C10: the signature buffer passed to C_Verify is non-null, has the
\* capacity the length query reported, and holds a signature written by
\* the second C_Sign.
C10_VerifyBufferValid ==
    Called("C_Verify") =>
        LET v == CallsOf("C_Verify")[1]
        IN  /\ ~v.in.pSignature.null
            /\ v.in.pSignature.cap = CallsOf("C_Sign")[1].out.signature_len
            /\ v.in.pSignature.written >= 0
====
